---- MODULE Spec2Model ----
(***************************************************************************)
(* Model of MqttManager (crates/rustyfarian-esp-idf-mqtt/src/lib.rs):      *)
(* the owning thread (construction, publish, shutdown, drop), the          *)
(* background event thread spawned by MqttManager::new, and the transport  *)
(* (EspMqttClient / EspMqttConnection) as an environment that decides what *)
(* connection.next() returns and accepts or rejects subscribe and enqueue  *)
(* requests; and of WiFiManager::connect_with_led                          *)
(* (crates/esp32-wifi-manager/src/lib.rs), which brings the WiFi up before *)
(* an MqttManager is built.                                                *)
(***************************************************************************)
EXTENDS Integers, Sequences, FiniteSets, TLC

(* ------------------------------ bounds --------------------------------- *)
\* number of events connection.next() returns in one run
MaxEvents == 2
\* number of publish() and explicit shutdown() calls the owner makes on a
\* live manager before it releases it
MaxCalls == 2

(* ------------------------- program constants --------------------------- *)
\* connection_timeout_ms.unwrap_or(5000)
DefaultTimeoutMs == 5000
\* polling interval of the connection wait, in milliseconds
PollIntervalMs == 100
\* connection_timeout_secs.unwrap_or(10)
DefaultWifiTimeoutSecs == 10
\* for _ in 0..20: red pulses after the WiFi timeout
RedPulses == 20
\* thread::sleep(Duration::from_millis(50)) after every LED update
LedIntervalMs == 50
\* Duration::from_secs: milliseconds in a second
MsPerSec == 1000

(* ------------------------------ inputs --------------------------------- *)
\* topics the transport delivers on; "other" is never subscribed
EventTopics == {"cmd", "other"}
\* b"on"
DataOn == <<111, 110>>

\* Option<T>
None == <<>>
Some(x) == <<x>>

\* EventPayload variants the event loop distinguishes; a Received event
\* without a topic is handled by the `_ => {}` arm.
Ev(kind, topic, data) == [kind |-> kind, topic |-> topic, data |-> data]
Events ==
    {Ev(kd, None, <<>>) : kd \in {"Connected", "Subscribed", "Error", "Disconnected"}}
    \cup {Ev("Received", Some(t), DataOn) : t \in EventTopics}
    \cup {Ev("Received", None, DataOn)}

\* LwtConfig::new("iot/dev-1/lwt", b"on", QoS::AtLeastOnce, true)
LwtDev1 == [topic |-> "iot/dev-1/lwt", payload |-> DataOn, qos |-> "AtLeastOnce", retain |-> TRUE]

\* The (config, incoming_topics) arguments MqttManager::new is called with:
\* two client ids; a timeout of two polling intervals (Scenario B) and one
\* below a single interval; a duplicated filter and two different filters;
\* with and without a Last Will.
Configs ==
    { [client_id |-> "dev-1", timeout_ms |-> <<200>>, topics |-> <<"cmd", "cmd">>,
       lwt |-> Some(LwtDev1)],
      [client_id |-> "n2", timeout_ms |-> <<50>>, topics |-> <<"status", "cmd">>,
       lwt |-> None],
      [client_id |-> "dev-1", timeout_ms |-> <<50>>, topics |-> <<"status", "cmd">>,
       lwt |-> Some(LwtDev1)] }

VARIABLES
    client_id,      \* MqttManager.client_id
    timeout_ms,     \* config.connection_timeout_ms: Option<u64>
    topics,         \* topics / topic_filters: Vec<String>
    lwt,            \* config.lwt: Option<LwtConfig>
    connected,      \* Arc<AtomicBool> connected
    shutdown,       \* Arc<AtomicBool> shutdown
    ownerPc,        \* position of the owning thread
    i,              \* loop variable of the connection wait
    k,              \* number of filters subscribed so far
    waitOutcome,    \* how the connection wait ended
    ctorResult,     \* result of MqttManager::new
    inDrop,         \* the running shutdown() was called from Drop
    nShutdown,      \* explicit shutdown() calls made
    nPublish,       \* publish() calls made
    ret,            \* last value returned to the owner by publish/shutdown
    subLog,         \* subscribe requests given to the transport
    pubLog,         \* enqueue requests given to the transport
    atStore,        \* what the thread had done when the flag was first stored
    produced,       \* events returned by connection.next(), in order
    streamEnded,    \* connection.next() has returned Err
    nread,          \* number of events returned by connection.next()
    bgPc,           \* position of the background thread
    dispatched,     \* indices of the events whose match arm ran
    handled,        \* on_message invocations, in order
    connection_timeout_secs, \* WiFiConfig.connection_timeout_secs: Option<u64>
    wifiPc,         \* position inside connect_with_led
    connect_started,\* connect_with_led: let mut connect_started
    elapsed_ms,     \* start_time.elapsed(), in milliseconds
    red_i,          \* red pulses shown by the `for _ in 0..20` loop
    led_color,      \* colour last given to led.set_color
    wifiResult      \* what connect_with_led returned

vars == <<client_id, timeout_ms, topics, lwt, connected, shutdown, ownerPc, i, k,
          waitOutcome, ctorResult, inDrop, nShutdown, nPublish, ret, subLog,
          pubLog, atStore, produced, streamEnded, nread, bgPc, dispatched, handled,
          connection_timeout_secs, wifiPc, connect_started, elapsed_ms, red_i,
          led_color, wifiResult>>

cfgVars == <<client_id, timeout_ms, topics, lwt>>
ownerVars == <<ownerPc, i, k, waitOutcome, ctorResult, inDrop, nShutdown,
               nPublish, ret, subLog, pubLog, atStore>>
bgVars == <<nread, bgPc, dispatched, handled>>
envVars == <<produced, streamEnded>>
wifiVars == <<connection_timeout_secs, wifiPc, connect_started, elapsed_ms,
              red_i, led_color, wifiResult>>
mqttVars == <<cfgVars, connected, shutdown, ownerVars, envVars, bgVars>>

(* --------------------------- pure functions ---------------------------- *)
\* payload.as_bytes() for the string payloads used here
AsBytes(s) ==
    CASE s = "1" -> <<49>>
      [] s = "on" -> <<111, 110>>
      [] OTHER -> <<>>

\* variant: the shutdown helper formats the startup topic
ShutdownTopicAsStartup(cid) == "iot/" \o cid \o "/startup"

\* format!("iot/{}/shutdown", self.client_id)
ShutdownTopic(cid) == "iot/" \o cid \o "/shutdown"

\* format!("iot/{}/startup", self.client_id)
StartupTopic(cid) == "iot/" \o cid \o "/startup"

\* config.connection_timeout_ms.unwrap_or(5000)
TimeoutMs(opt) == IF opt = <<>> THEN DefaultTimeoutMs ELSE opt[1]

\* variant: the wait runs one poll too many
IterationsOffByOne(opt) == TimeoutMs(opt) \div PollIntervalMs + 1

\* let iterations = timeout_ms / 100;
Iterations(opt) == TimeoutMs(opt) \div PollIntervalMs

\* variant: every topic is taken as subscribed
TopicMatchesAll(filters, topic_str) == TRUE

\* variant: only the first filter is compared
TopicMatchesFirst(filters, topic_str) ==
    Len(filters) > 0 /\ filters[1] = topic_str

\* topic_filters.iter().any(|t| t.as_str() == topic_str)
TopicMatches(filters, topic_str) ==
    \E j \in 1..Len(filters) : filters[j] = topic_str

\* the request publish_with hands to client.enqueue, and what came back
PublishWith(topic, payload, qos, retain, ok, origin) ==
    [topic |-> topic, payload |-> payload, qos |-> qos, retain |-> retain,
     ok |-> ok, origin |-> origin, flagAt |-> shutdown]

\* publish(): QoS 1 and no retain flag
Publish(topic, payload, ok, origin) ==
    PublishWith(topic, AsBytes(payload), "AtLeastOnce", FALSE, ok, origin)

\* send_shutdown_message(): publish "1" to iot/{client_id}/shutdown
SendShutdownMessage(cid, ok) ==
    Publish(ShutdownTopic(cid), "1", ok, "shutdown")

(* ------------------------ WiFi connection (LED) ------------------------ *)
\* WiFiConfig::with_timeout values the connection is tried with; None is
\* the default of WiFiConfig::new
WifiTimeouts == {None, Some(0), Some(1)}

\* Duration::from_secs(config.connection_timeout_secs.unwrap_or(10))
WifiTimeoutMs ==
    (IF connection_timeout_secs = None THEN DefaultWifiTimeoutSecs
     ELSE connection_timeout_secs[1]) * MsPerSec

\* start_time.elapsed() after one more sleep of 50 ms; the value is only
\* ever compared with the timeout, so it is kept at the timeout once there
AfterSleep(t) ==
    IF t + LedIntervalMs >= WifiTimeoutMs THEN WifiTimeoutMs ELSE t + LedIntervalMs

\* connect_with_led has been entered: line 146
WifiStart ==
    /\ connection_timeout_secs \in WifiTimeouts
    /\ wifiPc = "loop"
    /\ connect_started = FALSE
    /\ elapsed_ms = 0
    /\ red_i = 0
    /\ led_color = "off"
    /\ wifiResult = "none"

\* connect_with_led returned Ok(()) on its first pass with the default
\* timeout: the state of the WiFi when an MqttManager is built
WifiUp ==
    /\ connection_timeout_secs = None
    /\ wifiPc = "returned"
    /\ connect_started = TRUE
    /\ elapsed_ms = 0
    /\ red_i = 0
    /\ led_color = "green"
    /\ wifiResult = "Ok"

\* loop { if start_time.elapsed() >= timeout { .. }
WifiLoopHead ==
    /\ wifiPc = "loop"
    /\ wifiPc' = IF elapsed_ms >= WifiTimeoutMs THEN "red" ELSE "connect"
    /\ red_i' = 0
    /\ UNCHANGED <<mqttVars, connection_timeout_secs, connect_started, elapsed_ms,
                   led_color, wifiResult>>

\* for _ in 0..20 { led.set_color(red)?; thread::sleep(50 ms); }
WifiRedPulse ==
    /\ wifiPc = "red"
    /\ red_i < RedPulses
    /\ \E ok \in BOOLEAN :
         IF ok
           THEN /\ led_color' = "red"
                /\ red_i' = red_i + 1
                /\ elapsed_ms' = AfterSleep(elapsed_ms)
                /\ UNCHANGED <<wifiPc, wifiResult>>
           ELSE /\ wifiPc' = "returned"
                /\ wifiResult' = "ErrLed"
                /\ UNCHANGED <<led_color, red_i, elapsed_ms>>
    /\ UNCHANGED <<mqttVars, connection_timeout_secs, connect_started>>

\* return Err(anyhow!("Wi-Fi connection timeout after {} seconds", ..))
WifiTimeoutReturn ==
    /\ wifiPc = "red"
    /\ red_i = RedPulses
    /\ wifiPc' = "returned"
    /\ wifiResult' = "ErrTimeout"
    /\ UNCHANGED <<mqttVars, connection_timeout_secs, connect_started, elapsed_ms,
                   red_i, led_color>>

\* if !connect_started { match wifi.wifi_mut().connect() { .. } }
WifiConnect ==
    /\ wifiPc = "connect"
    /\ IF connect_started
         THEN UNCHANGED connect_started
         ELSE \E ok \in BOOLEAN : connect_started' = ok
    /\ wifiPc' = "is_connected"
    /\ UNCHANGED <<mqttVars, connection_timeout_secs, elapsed_ms, red_i, led_color,
                   wifiResult>>

\* if connect_started { match wifi.is_connected() { .. } }
WifiIsConnected ==
    /\ wifiPc = "is_connected"
    /\ IF connect_started
         THEN \E r \in {"true", "false", "err"} :
                /\ wifiPc' = IF r = "true" THEN "netif" ELSE "blue"
                /\ connect_started' = (r # "err")
         ELSE /\ wifiPc' = "blue"
              /\ UNCHANGED connect_started
    /\ UNCHANGED <<mqttVars, connection_timeout_secs, elapsed_ms, red_i, led_color,
                   wifiResult>>

\* led.set_color(blue)?; thread::sleep(50 ms); and back to the loop head
WifiBluePulse ==
    /\ wifiPc = "blue"
    /\ \E ok \in BOOLEAN :
         IF ok
           THEN /\ led_color' = "blue"
                /\ elapsed_ms' = AfterSleep(elapsed_ms)
                /\ wifiPc' = "loop"
                /\ UNCHANGED wifiResult
           ELSE /\ wifiPc' = "returned"
                /\ wifiResult' = "ErrLed"
                /\ UNCHANGED <<led_color, elapsed_ms>>
    /\ UNCHANGED <<mqttVars, connection_timeout_secs, connect_started, red_i>>

\* wifi.wait_netif_up()?
WifiNetifUp ==
    /\ wifiPc = "netif"
    /\ \E ok \in BOOLEAN :
         IF ok
           THEN /\ wifiPc' = "final"
                /\ UNCHANGED wifiResult
           ELSE /\ wifiPc' = "returned"
                /\ wifiResult' = "ErrWifi"
    /\ UNCHANGED <<mqttVars, connection_timeout_secs, connect_started, elapsed_ms,
                   red_i, led_color>>

\* if wifi.is_connected()? { led.set_color(green)?; } Ok(())
WifiFinal ==
    /\ wifiPc = "final"
    /\ wifiPc' = "returned"
    /\ \E r \in {"true", "false", "err"}, ok \in BOOLEAN :
         /\ wifiResult' = IF r = "err" THEN "ErrWifi"
                          ELSE IF r = "true" /\ ~ok THEN "ErrLed"
                          ELSE "Ok"
         /\ led_color' = IF r = "true" /\ ok THEN "green" ELSE led_color
    /\ UNCHANGED <<mqttVars, connection_timeout_secs, connect_started, elapsed_ms,
                   red_i>>

WifiNext ==
    \/ WifiLoopHead \/ WifiRedPulse \/ WifiTimeoutReturn \/ WifiConnect
    \/ WifiIsConnected \/ WifiBluePulse \/ WifiNetifUp \/ WifiFinal

(* -------------------------------- Init --------------------------------- *)
\* State at line 246: the client is open, both flags are false, the event
\* thread is spawned and the manager value is built; the WiFi is up.
Init ==
    /\ WifiUp
    /\ \E c \in Configs :
         /\ client_id = c.client_id
         /\ timeout_ms = c.timeout_ms
         /\ topics = c.topics
         /\ lwt = c.lwt
    /\ connected = FALSE
    /\ shutdown = FALSE
    /\ ownerPc = "wait"
    /\ i = 0
    /\ k = 0
    /\ waitOutcome = "pending"
    /\ ctorResult = "none"
    /\ inDrop = FALSE
    /\ nShutdown = 0
    /\ nPublish = 0
    /\ ret = [op |-> "none", val |-> "none"]
    /\ subLog = <<>>
    /\ pubLog = <<>>
    /\ atStore = None
    /\ produced = <<>>
    /\ streamEnded = FALSE
    /\ nread = 0
    /\ bgPc = "next"
    /\ dispatched = <<>>
    /\ handled = <<>>

(* ------------------------- background thread --------------------------- *)
\* variant: a thread that has left the loop is started again and reads on
BgNextOkRespawns ==
    /\ bgPc \in {"next", "terminated"}
    /\ ~streamEnded
    /\ Len(produced) < MaxEvents
    /\ \E e \in Events : produced' = Append(produced, e)
    /\ nread' = nread + 1
    /\ bgPc' = "check"
    /\ UNCHANGED <<wifiVars, cfgVars, connected, shutdown, ownerVars, streamEnded, dispatched, handled>>

\* while let Ok(event) = connection.next(): the blocking call returns the
\* next event of the transport
BgNextOk ==
    /\ bgPc = "next"
    /\ ~streamEnded
    /\ Len(produced) < MaxEvents
    /\ \E e \in Events : produced' = Append(produced, e)
    /\ nread' = nread + 1
    /\ bgPc' = "check"
    /\ UNCHANGED <<wifiVars, cfgVars, connected, shutdown, ownerVars, streamEnded, dispatched, handled>>

\* connection.next() returns Err (the transport closed the stream): the
\* while let ends
BgNextErr ==
    /\ bgPc = "next"
    /\ streamEnded' = TRUE
    /\ bgPc' = "terminated"
    /\ UNCHANGED <<wifiVars, cfgVars, connected, shutdown, ownerVars, produced, nread, dispatched, handled>>

\* variant: the per-event check never sees the flag
ShutdownObservedNever(flag) == FALSE

\* variant: the flag is looked at in the Disconnected arm only
ShutdownObservedOnDisconnectOnly(flag) == FALSE

\* if shutdown_clone.load(Ordering::Relaxed) { break; }
ShutdownObserved(flag) == flag

\* variant: the thread swaps the flag back to false when it reads it
ShutdownAfterSwap(flag) == FALSE

\* the value load(Ordering::Relaxed) leaves in the flag
ShutdownAfterLoad(flag) == flag

BgCheck ==
    /\ bgPc = "check"
    /\ bgPc' = IF ShutdownObserved(shutdown) THEN "terminated" ELSE "match"
    /\ shutdown' = ShutdownAfterLoad(shutdown)
    /\ UNCHANGED <<wifiVars, cfgVars, connected, ownerVars, envVars, nread, dispatched, handled>>

\* the value the match arm leaves in the connected flag
ConnectedAfter(kind, old) ==
    IF kind = "Connected" THEN TRUE ELSE old

\* the Received arm invokes on_message
Dispatches(filters, e) ==
    /\ e.kind = "Received"
    /\ e.topic # None
    /\ TopicMatches(filters, e.topic[1])

\* variant: the Error arm leaves the loop
AfterArmErrorBreaks(kind) ==
    IF kind = "Error" THEN "terminated"
    ELSE IF kind = "Disconnected" THEN "disc" ELSE "next"

\* where the thread goes when an arm other than a handler call is done:
\* the Disconnected arm checks the flag, every other arm falls out of the
\* match and the while let calls connection.next() again
AfterArm(kind) == IF kind = "Disconnected" THEN "disc" ELSE "next"

\* match event.payload() { ... }
BgMatch ==
    /\ bgPc = "match"
    /\ LET e == produced[nread] IN
       /\ connected' = ConnectedAfter(e.kind, connected)
       /\ dispatched' = Append(dispatched, nread)
       /\ IF Dispatches(topics, e)
            THEN /\ handled' = Append(handled, [id |-> nread, topic |-> e.topic[1], data |-> e.data])
                 /\ bgPc' = "handler"
            ELSE /\ UNCHANGED handled
                 /\ bgPc' = AfterArm(e.kind)
    /\ UNCHANGED <<wifiVars, cfgVars, shutdown, ownerVars, envVars, nread>>

\* on_message(topic_str, data) returns
BgHandlerReturn ==
    /\ bgPc = "handler"
    /\ bgPc' = "next"
    /\ UNCHANGED <<wifiVars, cfgVars, connected, shutdown, ownerVars, envVars, nread, dispatched, handled>>

\* Disconnected arm: if shutdown_clone.load(Ordering::Relaxed) { break; }
BgDisconnected ==
    /\ bgPc = "disc"
    /\ bgPc' = IF shutdown THEN "terminated" ELSE "next"
    /\ UNCHANGED <<wifiVars, cfgVars, connected, shutdown, ownerVars, envVars, nread, dispatched, handled>>

\* the steps the thread takes without waiting for the transport
BgRun == BgCheck \/ BgMatch \/ BgHandlerReturn \/ BgDisconnected

BgStep == BgNextOk \/ BgNextErr \/ BgRun

(* --------------------------- owning thread ----------------------------- *)
\* variant: an elapsed wait fails construction
AfterWaitTimeoutFails(outcome) == IF outcome = "elapsed" THEN "error" ELSE "subscribe"

\* where construction continues once the connection wait is over
AfterWait(outcome) == "subscribe"

\* for i in 0..iterations { if connected.load() { break; } sleep(100ms); }
Poll ==
    /\ ownerPc = "wait"
    /\ LET outcome == IF i < Iterations(timeout_ms) /\ connected THEN "confirmed"
                      ELSE IF i + 1 >= Iterations(timeout_ms) THEN "elapsed"
                      ELSE "pending"
       IN
       /\ waitOutcome' = outcome
       /\ i' = IF i < Iterations(timeout_ms) /\ ~connected THEN i + 1 ELSE i
       /\ IF outcome = "pending"
            THEN UNCHANGED <<ownerPc, ctorResult, inDrop>>
            ELSE IF AfterWait(outcome) = "subscribe"
                   THEN /\ ownerPc' = "subscribe"
                        /\ UNCHANGED <<ctorResult, inDrop>>
                   ELSE /\ ownerPc' = "sd_publish"
                        /\ ctorResult' = "Err"
                        /\ inDrop' = TRUE
    /\ UNCHANGED <<wifiVars, cfgVars, atStore, connected, shutdown, k, nShutdown, nPublish, ret,
                   subLog, pubLog, envVars, bgVars>>

\* variant: the result of subscribe is ignored
SubscribeFailsNever(ok) == FALSE

\* the `?` on client.subscribe: a rejected request ends new() with the error
SubscribeFails(ok) == ~ok

\* variant: the error is returned without the manager being dropped
OnSubscribeErrorNoDrop == "released"

\* where the `?` leaves the owner: `manager` (line 241) goes out of scope,
\* so Drop::drop runs shutdown() before new() returns the error
OnSubscribeError == "sd_publish"

\* manager.client.subscribe(topic.as_str(), QoS::AtLeastOnce)?
\* An Err leaves new() through `?`, which drops the manager built at line 241.
Subscribe ==
    /\ ownerPc = "subscribe"
    /\ k < Len(topics)
    /\ \E ok \in BOOLEAN :
         /\ subLog' = Append(subLog, [topic |-> topics[k + 1], qos |-> "AtLeastOnce", ok |-> ok])
         /\ IF ~SubscribeFails(ok)
              THEN /\ k' = k + 1
                   /\ UNCHANGED <<ownerPc, ctorResult, inDrop>>
              ELSE /\ ownerPc' = OnSubscribeError
                   /\ ctorResult' = "Err"
                   /\ inDrop' = TRUE
                   /\ UNCHANGED k
    /\ UNCHANGED <<wifiVars, cfgVars, atStore, connected, shutdown, i, waitOutcome, nShutdown,
                   nPublish, ret, pubLog, envVars, bgVars>>

\* Ok(manager)
CtorReturn ==
    /\ ownerPc = "subscribe"
    /\ k = Len(topics)
    /\ ownerPc' = "live"
    /\ ctorResult' = "Ok"
    /\ UNCHANGED <<wifiVars, cfgVars, atStore, connected, shutdown, i, k, waitOutcome, inDrop,
                   nShutdown, nPublish, ret, subLog, pubLog, envVars, bgVars>>

\* variant: the result of enqueue is discarded
PublishResultAlwaysOk(ok) == "Ok"

\* self.client.enqueue(topic, qos, retain, payload)?; Ok(())
PublishResult(ok) == IF ok THEN "Ok" ELSE "Err"

\* mqtt.publish("status", "on")
PublishCall ==
    /\ ownerPc = "live"
    /\ nPublish + nShutdown < MaxCalls
    /\ \E ok \in BOOLEAN :
         /\ pubLog' = Append(pubLog, Publish("status", "on", ok, "publish"))
         /\ ret' = [op |-> "publish", val |-> PublishResult(ok)]
    /\ nPublish' = nPublish + 1
    /\ UNCHANGED <<wifiVars, cfgVars, atStore, connected, shutdown, ownerPc, i, k, waitOutcome,
                   ctorResult, inDrop, nShutdown, subLog, envVars, bgVars>>

\* the owner calls shutdown() on a live manager
ShutdownCall ==
    /\ ownerPc = "live"
    /\ nPublish + nShutdown < MaxCalls
    /\ ownerPc' = "sd_publish"
    /\ inDrop' = FALSE
    /\ nShutdown' = nShutdown + 1
    /\ UNCHANGED <<wifiVars, cfgVars, atStore, connected, shutdown, i, k, waitOutcome, ctorResult,
                   nPublish, ret, subLog, pubLog, envVars, bgVars>>

\* the owner releases the manager: Drop::drop calls self.shutdown()
DropCall ==
    /\ ownerPc = "live"
    /\ ownerPc' = "sd_publish"
    /\ inDrop' = TRUE
    /\ UNCHANGED <<wifiVars, cfgVars, atStore, connected, shutdown, i, k, waitOutcome, ctorResult,
                   nShutdown, nPublish, ret, subLog, pubLog, envVars, bgVars>>

\* variant: shutdown() returns the publish error before the store
AfterShutdownPublishPropagates(ok) == IF ok THEN "store" ELSE "return"

\* what shutdown() does with the result of send_shutdown_message():
\* an Err is logged and the store follows in both cases
AfterShutdownPublish(ok) == "store"

\* shutdown(), first half: if let Err(e) = self.send_shutdown_message() { warn }
ShutdownPublish ==
    /\ ownerPc = "sd_publish"
    /\ \E ok \in BOOLEAN :
         /\ pubLog' = Append(pubLog, SendShutdownMessage(client_id, ok))
         /\ IF AfterShutdownPublish(ok) = "store"
              THEN /\ ownerPc' = "sd_store"
                   /\ UNCHANGED ret
              ELSE /\ ownerPc' = IF inDrop THEN "released" ELSE "live"
                   /\ ret' = [op |-> IF inDrop THEN "drop" ELSE "shutdown", val |-> "Err"]
    /\ UNCHANGED <<wifiVars, cfgVars, atStore, connected, shutdown, i, k, waitOutcome, ctorResult,
                   inDrop, nShutdown, nPublish, subLog, envVars, bgVars>>

\* variant: shutdown() stores false
StoredFlagFalse == FALSE

\* the value shutdown() stores into the flag
StoredFlag == TRUE

\* where the background thread stands: how many events it has processed,
\* and whether it holds an event that has passed the flag check and is
\* about to enter its match arm
ThreadProgress ==
    [dispatched |-> Len(dispatched), inFlight |-> (bgPc = "match")]

\* variant: shutdown() joins the background thread before it returns
ShutdownStoreJoins ==
    /\ ownerPc = "sd_store"
    /\ bgPc = "terminated"
    /\ shutdown' = StoredFlag
    /\ atStore' = IF shutdown' /\ atStore = None THEN Some(ThreadProgress) ELSE atStore
    /\ ownerPc' = IF inDrop THEN "released" ELSE "live"
    /\ ret' = [op |-> IF inDrop THEN "drop" ELSE "shutdown", val |-> "Unit"]
    /\ UNCHANGED <<wifiVars, cfgVars, connected, i, k, waitOutcome, ctorResult, inDrop,
                   nShutdown, nPublish, subLog, pubLog, envVars, bgVars>>

\* shutdown(), second half: self.shutdown.store(true, Ordering::Relaxed)
ShutdownStore ==
    /\ ownerPc = "sd_store"
    /\ shutdown' = StoredFlag
    /\ atStore' = IF shutdown' /\ atStore = None THEN Some(ThreadProgress) ELSE atStore
    /\ ownerPc' = IF inDrop THEN "released" ELSE "live"
    /\ ret' = [op |-> IF inDrop THEN "drop" ELSE "shutdown", val |-> "Unit"]
    /\ UNCHANGED <<wifiVars, cfgVars, connected, i, k, waitOutcome, ctorResult, inDrop,
                   nShutdown, nPublish, subLog, pubLog, envVars, bgVars>>

OwnerStep ==
    \/ Poll \/ Subscribe \/ CtorReturn \/ PublishCall
    \/ ShutdownCall \/ DropCall \/ ShutdownPublish \/ ShutdownStore

Next == OwnerStep \/ BgStep

Spec == Init /\ [][Next]_vars

\* one configuration of Init, for the checks of eventual termination
InitLive ==
    /\ Init
    /\ client_id = "n2"

\* dropping the manager drops `client`; the transport then ends the stream
ClientDropClose == ownerPc = "released" /\ BgNextErr

\* The scheduler runs the background thread whenever it is not blocked in
\* connection.next(), and a released client ends the event stream. The
\* transport is under no obligation to make connection.next() return while
\* the owner holds the manager.
FairSpec ==
    /\ InitLive
    /\ [][Next]_vars
    /\ WF_vars(BgRun)
    /\ WF_vars(ClientDropClose)

\* the configuration whose wait takes two polls
InitWait ==
    /\ Init
    /\ timeout_ms = Some(200)

\* The owning thread is inside MqttManager::new and nothing it calls in the
\* wait loop blocks: thread::sleep returns, so the scheduler lets it poll.
WaitSpec ==
    /\ InitWait
    /\ [][Next]_vars
    /\ WF_vars(Poll)

\* WiFiManager::new with a status LED, from the entry of connect_with_led;
\* the MQTT side is the one not yet stepped manager of the "n2" arguments
WifiInit ==
    /\ WifiStart
    /\ client_id = "n2"
    /\ timeout_ms = Some(50)
    /\ topics = <<"status", "cmd">>
    /\ lwt = None
    /\ connected = FALSE
    /\ shutdown = FALSE
    /\ ownerPc = "wait"
    /\ i = 0
    /\ k = 0
    /\ waitOutcome = "pending"
    /\ ctorResult = "none"
    /\ inDrop = FALSE
    /\ nShutdown = 0
    /\ nPublish = 0
    /\ ret = [op |-> "none", val |-> "none"]
    /\ subLog = <<>>
    /\ pubLog = <<>>
    /\ atStore = None
    /\ produced = <<>>
    /\ streamEnded = FALSE
    /\ nread = 0
    /\ bgPc = "next"
    /\ dispatched = <<>>
    /\ handled = <<>>

WifiSpec == WifiInit /\ [][WifiNext]_vars

TypeOK ==
    /\ connected \in BOOLEAN
    /\ shutdown \in BOOLEAN
    /\ ownerPc \in {"wait", "subscribe", "live", "sd_publish", "sd_store", "released"}
    /\ bgPc \in {"next", "check", "match", "handler", "disc", "terminated"}
    /\ nread \in 0..Len(produced)

(* ------------------------- derived quantities -------------------------- *)
\* events the background thread has taken from the stream and is done with
\* (the event taken last still awaits its flag check or its match arm)
Finished == IF bgPc \in {"check", "match"} THEN nread - 1 ELSE nread

Ids(n) == [j \in 1..n |-> j]

HandledIds == [j \in 1..Len(handled) |-> handled[j].id]

\* the event is a MessageReceived whose topic equals some subscribed filter
IsMatching(e) ==
    /\ e.kind = "Received"
    /\ e.topic # None
    /\ \E f \in 1..Len(topics) : topics[f] = e.topic[1]

IsMatchingId(j) == IsMatching(produced[j])

IsShutdownAttempt(r) == r.origin = "shutdown"

ShutdownAttempts == SelectSeq(pubLog, IsShutdownAttempt)

\* some shutdown invocation (explicit or from Drop) has begun
ShutdownInvoked == nShutdown > 0 \/ inDrop

\* some shutdown invocation has returned to the owner
ShutdownReturned ==
    \/ ownerPc = "released"
    \/ nShutdown > 1
    \/ (nShutdown = 1 /\ ownerPc = "live")
    \/ (nShutdown = 1 /\ inDrop)

IsConnEvent(j) == produced[j].kind \in {"Connected", "Disconnected"}

\* Connected / Disconnected events the loop has processed, in order
ConnEvents == SelectSeq(dispatched, IsConnEvent)

\* config.lwt.as_ref().map(|lwt| LwtConfiguration { .. }): the will the
\* client declares to the broker when it connects
DeclaredWill ==
    IF lwt = None THEN None
    ELSE Some([topic |-> lwt[1].topic, payload |-> lwt[1].payload,
               qos |-> lwt[1].qos, retain |-> lwt[1].retain])

\* every call the manager has made on its EspMqttClient, in order: the
\* subscribes of construction, then the enqueues of publish and shutdown
ClientCalls ==
    [j \in 1..Len(subLog) |-> [call |-> "subscribe", topic |-> subLog[j].topic]]
    \o [j \in 1..Len(pubLog) |-> [call |-> "enqueue", topic |-> pubLog[j].topic]]

\* the manager has asked the client for a DISCONNECT
DisconnectRequested ==
    \E j \in 1..Len(ClientCalls) : ClientCalls[j].call = "disconnect"

(* ------------------------------ claims --------------------------------- *)
\* C1: the message handler is never invoked for a MessageReceived event
\* whose topic is absent or is not exactly equal to some filter of the
\* SubscriptionSet; every invocation carries the topic of its event.
C1_HandlerOnlyForSubscribed ==
    \A j \in 1..Len(handled) :
        LET e == produced[handled[j].id] IN
        /\ e.kind = "Received"
        /\ e.topic # None
        /\ \E f \in 1..Len(topics) : topics[f] = e.topic[1]
        /\ handled[j].topic = e.topic[1]

\* two undelivered messages (unsubscribed topic, absent topic) were processed
C1_Witness ==
    /\ Len(dispatched) = 2
    /\ bgPc = "next"
    /\ produced[dispatched[1]] = Ev("Received", Some("other"), DataOn)
    /\ produced[dispatched[2]] = Ev("Received", None, DataOn)
    /\ handled = <<>>

\* C2 (as stated): every matching MessageReceived event the transport
\* produced and the loop has taken is handed to the handler exactly once,
\* in production order, with no drop.
C2_Original == HandledIds = SelectSeq(Ids(Finished), IsMatchingId)

\* C2 (amended): every matching MessageReceived event whose per-event
\* shuttingDown check read false is handed to the handler exactly once, in
\* production order, also with a duplicated filter; an event the loop took
\* and did not process was read when shuttingDown was already true.
C2_DispatchedExactlyOnceInOrder ==
    /\ HandledIds = SelectSeq(dispatched, IsMatchingId)
    /\ \A j \in 1..Finished :
         (\A d \in 1..Len(dispatched) : dispatched[d] # j) => shutdown

\* two matching messages were delivered under a duplicated filter
C2_Witness ==
    /\ topics = <<"cmd", "cmd">>
    /\ Len(handled) = 2
    /\ HandledIds = <<1, 2>>
    /\ bgPc = "next"

\* C3 (as stated): all shutdown invocations of one manager together make
\* exactly one shutdown-notification publish attempt.
C3_Original ==
    /\ Len(ShutdownAttempts) <= 1
    /\ (ShutdownReturned => Len(ShutdownAttempts) = 1)

\* C4 (as stated): no shutdown-notification publish attempt is issued while
\* the shuttingDown flag is already true.
C4_Original ==
    \A j \in 1..Len(pubLog) :
        pubLog[j].origin = "shutdown" => pubLog[j].flagAt = FALSE

\* C5: once the manager is released, a publish attempt to
\* iot/{client_id}/shutdown with payload "1", at-least-once, retain=false has
\* been made (it is the last request given to the transport) and the
\* shuttingDown flag is true; the attempt precedes the store.
C5_DropRunsShutdown ==
    LET expected == [topic |-> IF client_id = "dev-1" THEN "iot/dev-1/shutdown"
                               ELSE "iot/n2/shutdown",
                     payload |-> <<49>>, qos |-> "AtLeastOnce", retain |-> FALSE]
        sent(r) == [topic |-> r.topic, payload |-> r.payload, qos |-> r.qos,
                    retain |-> r.retain]
    IN
    /\ (inDrop /\ ownerPc \in {"sd_store", "released"}) =>
          /\ Len(pubLog) > 0
          /\ sent(pubLog[Len(pubLog)]) = expected
          /\ pubLog[Len(pubLog)].origin = "shutdown"
    /\ ownerPc = "released" => shutdown

\* a successfully built manager was released
C5_Witness ==
    /\ ownerPc = "released"
    /\ ctorResult = "Ok"
    /\ client_id = "dev-1"
    /\ nShutdown = 0

\* C6: the shuttingDown flag is false until the first shutdown invocation,
\* true once any shutdown invocation has returned, and never goes from true
\* back to false.
C6_FlagMonotonic ==
    /\ [](~ShutdownInvoked => ~shutdown)
    /\ [](ShutdownReturned => shutdown)
    /\ [][shutdown => shutdown']_vars

\* an explicit shutdown() has returned, a later shutdown is storing again
C6_Witness ==
    /\ nShutdown = 1
    /\ shutdown
    /\ ownerPc = "sd_store"
    /\ inDrop

\* C7: when the transport rejects the shutdown-notification publish,
\* shutdown() goes on to the store, returns no error and leaves shuttingDown
\* true.
C7_BestEffort ==
    LET n == Len(ShutdownAttempts) IN
    (n > 0 /\ ~ShutdownAttempts[n].ok) =>
        /\ (ownerPc = "sd_store" \/ shutdown)
        /\ (ret.op \in {"shutdown", "drop"} => ret.val = "Unit")

\* an explicit shutdown() returned after its publish was rejected
C7_Witness ==
    /\ ownerPc = "live"
    /\ ret = [op |-> "shutdown", val |-> "Unit"]
    /\ Len(ShutdownAttempts) = 1
    /\ ~ShutdownAttempts[1].ok
    /\ shutdown

NoConnectedProcessed ==
    \A j \in 1..Len(dispatched) : produced[dispatched[j]].kind # "Connected"

AllSubscribesAccepted == \A j \in 1..Len(subLog) : subLog[j].ok

C9_Original ==
    LET n == Len(ConnEvents) IN
    n > 0 => (connected <=> produced[ConnEvents[n]].kind = "Connected")

\* connection.next() has returned an event that awaits one of the loop's
\* loads of the shutdown flag
AwaitsFlagCheck == bgPc \in {"check", "disc"}

\* C10 (as stated): once shuttingDown is true the background thread
\* reaches Terminated, given only fair scheduling of that thread.
C10_Original == shutdown ~> (bgPc = "terminated")

\* C10 (amended): once shuttingDown is true and connection.next() hands the
\* loop one more event, the background thread reaches Terminated under fair
\* scheduling of that thread (an Err from next() ends the loop at once); the
\* owner never joins or stops it.
C10_TerminatesOnNextYield ==
    (shutdown /\ AwaitsFlagCheck) ~> (bgPc = "terminated")

\* the loop left by observing the flag while the owner still holds the manager
C10_Witness ==
    /\ bgPc = "terminated"
    /\ shutdown
    /\ ~streamEnded
    /\ ownerPc = "live"
    /\ nread > Len(dispatched)

\* C11: the subscribe requests are the filters of the SubscriptionSet in
\* the order given, each at-least-once, none before the connection wait is
\* over; a rejected request is the last one issued, construction then
\* returns an error and the owner never holds a live manager; construction
\* returns Ok only after one accepted request per filter.
C11_SubscribeAllOrFail ==
    /\ Len(subLog) <= Len(topics)
    /\ \A j \in 1..Len(subLog) :
         /\ subLog[j].topic = topics[j]
         /\ subLog[j].qos = "AtLeastOnce"
         /\ (~subLog[j].ok =>
               /\ j = Len(subLog)
               /\ ctorResult = "Err"
               /\ ownerPc \notin {"subscribe", "live"})
    /\ (Len(subLog) > 0 => waitOutcome \in {"confirmed", "elapsed"})
    /\ (ownerPc = "wait" => subLog = <<>>)
    /\ (ctorResult = "Ok" => (Len(subLog) = Len(topics) /\ AllSubscribesAccepted))

\* the second of two filters was rejected: construction failed after it
C11_Witness ==
    /\ topics = <<"status", "cmd">>
    /\ Len(subLog) = 2
    /\ subLog[1].ok
    /\ ~subLog[2].ok
    /\ ctorResult = "Err"
    /\ ownerPc = "released"

\* C12: every call of publish hands exactly one request to the transport
\* and returns Ok exactly when the transport accepted it and Err exactly
\* when it rejected it; the call changes neither flag and leaves the manager
\* live, whatever the earlier calls returned.
C12_PublishMirrorsTransport ==
    [][nPublish' # nPublish =>
         /\ ownerPc = "live"
         /\ ownerPc' = "live"
         /\ Len(pubLog') = Len(pubLog) + 1
         /\ SubSeq(pubLog', 1, Len(pubLog)) = pubLog
         /\ pubLog'[Len(pubLog')].origin = "publish"
         /\ pubLog'[Len(pubLog')].topic = "status"
         /\ ret'.op = "publish"
         /\ (ret'.val = "Ok" <=> pubLog'[Len(pubLog')].ok)
         /\ (ret'.val = "Err" <=> ~pubLog'[Len(pubLog')].ok)
         /\ UNCHANGED <<connected, shutdown>>]_vars

\* a publish was rejected, then the Connected event was processed, and the
\* next publish was forwarded and accepted
C12_Witness ==
    /\ nPublish = 2
    /\ Len(pubLog) = 2
    /\ ~pubLog[1].ok
    /\ pubLog[2].ok
    /\ pubLog[2].origin = "publish"
    /\ ret = [op |-> "publish", val |-> "Ok"]
    /\ connected
    /\ ~shutdown

\* C13: each flag has one writer. A step that changes connected is a step
\* of the background thread (its match) and no step of the owner; a step
\* that changes shuttingDown is the owner's store in shutdown and no step
\* of the background thread; a step of the background thread leaves
\* shuttingDown as it was and issues no publish and no subscribe.
C13_SingleWriter ==
    [][/\ (connected' # connected =>
             (bgPc = "match" /\ bgPc' # bgPc /\ UNCHANGED ownerVars))
       /\ (shutdown' # shutdown =>
             (ownerPc = "sd_store" /\ ownerPc' # ownerPc /\ UNCHANGED bgVars))
       /\ (bgVars' # bgVars =>
             UNCHANGED <<shutdown, subLog, pubLog, ownerVars>>)]_vars

\* both writers have written: the thread stored connected, the owner
\* stored shuttingDown, and the thread has read shuttingDown since
C13_Witness ==
    /\ connected
    /\ shutdown
    /\ bgPc = "terminated"
    /\ ~streamEnded
    /\ Len(pubLog) > 0
    /\ Len(subLog) > 0

\* C14: with a Last Will declared, once shutdown() has returned to an owner
\* that still holds the manager, the manager has asked the transport for a
\* clean DISCONNECT (so that the broker discards the will).
C14_Original ==
    (/\ DeclaredWill # None
     /\ nShutdown > 0
     /\ ownerPc = "live"
     /\ ret.op = "shutdown")
    => DisconnectRequested

\* C15: the event loop reaches Terminated only from the read of the next
\* event when that read fails, or from one of its two flag checks when
\* shuttingDown is true there; a match arm never terminates it, and neither
\* does the Disconnected check with the flag false. The arms of Error and
\* SubscriptionConfirmed events change neither flag, and the arm of a
\* Connected event stores connected = true whatever was processed before.
C15_OnlyTwoExits ==
    [][bgPc' # bgPc =>
         /\ (bgPc' = "terminated" =>
               \/ (bgPc = "next" /\ streamEnded')
               \/ (bgPc \in {"check", "disc"} /\ shutdown))
         /\ (bgPc \in {"check", "disc"} /\ ~shutdown => bgPc' # "terminated")
         /\ (bgPc = "match" =>
               /\ bgPc' \in {"next", "handler", "disc"}
               /\ dispatched' = Append(dispatched, nread)
               /\ (produced[nread].kind \in {"Error", "Subscribed"} =>
                     UNCHANGED <<connected, shutdown>>)
               /\ (produced[nread].kind = "Connected" => connected'))]_vars

\* a Disconnected event, then a Connected event, both processed with the
\* flag false: the loop is reading the next event again
C15_Witness ==
    /\ Len(produced) = 2
    /\ produced[1].kind = "Disconnected"
    /\ produced[2].kind = "Connected"
    /\ dispatched = <<1, 2>>
    /\ connected
    /\ ~shutdown
    /\ bgPc = "next"

\* C16: Terminated is absorbing. Once the background thread has left its
\* loop, every later step leaves it terminated, consumes no event, invokes
\* no handler, processes no event and leaves the connected flag as it is.
C16_TerminatedAbsorbing ==
    [][bgPc = "terminated" =>
         /\ bgPc' = "terminated"
         /\ UNCHANGED <<nread, produced, dispatched, handled, connected>>]_vars

\* the thread left the loop on the flag while the stream was still open and
\* could deliver more; the owner then published on the live manager
C16_Witness ==
    /\ bgPc = "terminated"
    /\ ~streamEnded
    /\ Len(produced) < MaxEvents
    /\ ownerPc = "live"
    /\ ret.op = "publish"
    /\ pubLog[Len(pubLog)].flagAt

\* C17: shutdown never waits for the background thread. In every state in
\* which a shutdown invocation (explicit or from the release of the
\* manager) is under way, its next step can be taken by the owner whatever
\* the background thread is doing (blocked reading the next event, checking
\* the flag, in a match arm, in the handler, or terminated); an explicit
\* shutdown that has returned has stored the flag.
C17_ShutdownNeverWaits ==
    /\ (ownerPc = "sd_publish" => ENABLED ShutdownPublish)
    /\ (ownerPc = "sd_store" => ENABLED ShutdownStore)
    /\ (ownerPc = "live" /\ ret.op = "shutdown" => shutdown)

\* an explicit shutdown() has returned while the thread was still inside
\* the message handler
C17_Witness ==
    /\ ownerPc = "live"
    /\ ret = [op |-> "shutdown", val |-> "Unit"]
    /\ shutdown
    /\ bgPc = "handler"

\* C18: the connection wait always terminates. The owner makes at most
\* timeout_ms / 100 polls (50 when timeout_ms is not given); every poll
\* either leaves the wait or counts one more poll; a poll that reads
\* connected = true leaves the wait at once, with the connection confirmed;
\* no subscribe request exists while the wait is under way; and the owner
\* does leave the wait.
C18_WaitTerminates ==
    /\ [](/\ i <= (IF timeout_ms = None THEN 50 ELSE timeout_ms[1] \div 100)
          /\ Iterations(None) = 50
          /\ (ownerPc = "wait" => (subLog = <<>> /\ waitOutcome = "pending"))
          /\ (ownerPc # "wait" => waitOutcome \in {"confirmed", "elapsed"})
          /\ (waitOutcome = "elapsed" =>
                i = (IF timeout_ms = None THEN 50 ELSE timeout_ms[1] \div 100)))
    /\ [][ownerPc = "wait" /\ ownerVars' # ownerVars =>
            /\ (ownerPc' = "subscribe" \/ (ownerPc' = "wait" /\ i' = i + 1))
            /\ (connected /\ i < timeout_ms[1] \div 100 =>
                  (ownerPc' = "subscribe" /\ waitOutcome' = "confirmed" /\ i' = i))]_vars
    /\ (ownerPc = "wait" ~> ownerPc # "wait")

\* the wait ended on its second poll, which read the flag the thread had
\* stored meanwhile, and construction went on to subscribe
C18_Witness ==
    /\ timeout_ms = Some(200)
    /\ i = 1
    /\ waitOutcome = "confirmed"
    /\ connected
    /\ Len(subLog) > 0

\* the timeout branch of connect_with_led has been taken
WifiTimedOut == elapsed_ms >= WifiTimeoutMs /\ led_color = "red"

\* C19: WiFiManager::new with a status LED: once the connection timeout has
\* elapsed and the red pulse is shown, the call never returns; unless the
\* LED itself fails, it stays in the red pulse.
C19_Original == (WifiTimedOut /\ wifiResult # "ErrLed") => wifiPc = "red"

\* C20: when a subscribe request of construction is rejected, the manager
\* built so far is released before the error is returned, so shutdown runs
\* in full: the owner is inside the shutdown of a release from then on, and
\* once it is over exactly one publish attempt of "1" to
\* iot/{client_id}/shutdown has been made (whatever its result) and
\* shuttingDown is true; from then on a flag check of the background thread
\* terminates it.
C20_FailedSubscribeReleases ==
    /\ [](ctorResult = "Err" =>
            /\ inDrop
            /\ Len(subLog) > 0
            /\ ~subLog[Len(subLog)].ok
            /\ ownerPc \in {"sd_publish", "sd_store", "released"}
            /\ (ownerPc = "sd_publish" => Len(ShutdownAttempts) = 0)
            /\ (ownerPc # "sd_publish" =>
                  /\ Len(pubLog) = 1
                  /\ pubLog[1].origin = "shutdown"
                  /\ pubLog[1].topic = "iot/" \o client_id \o "/shutdown"
                  /\ pubLog[1].payload = <<49>>)
            /\ (ownerPc = "released" =>
                  (shutdown /\ ret = [op |-> "drop", val |-> "Unit"])))
    /\ [][(ctorResult = "Err" /\ ownerPc = "released"
              /\ bgPc \in {"check", "disc"} /\ bgPc' # bgPc)
            => bgPc' = "terminated"]_vars

\* the second subscribe was rejected, the shutdown publish was rejected
\* too, the flag was stored, and the thread left its loop on the event it
\* read next while the stream was still open
C20_Witness ==
    /\ ctorResult = "Err"
    /\ ownerPc = "released"
    /\ Len(subLog) = 2
    /\ Len(pubLog) = 1
    /\ ~pubLog[1].ok
    /\ shutdown
    /\ nread > 0
    /\ bgPc = "terminated"
    /\ ~streamEnded

\* handler calls made for events after the first n processed ones
HandledAfter(n) == {j \in 1..Len(handled) : handled[j].id > n}

\* C21: an event whose flag check reads true is discarded: the check leads
\* to Terminated with no handler call, no processing and no write to
\* connected. So after the first store of shuttingDown = true the thread
\* processes at most one further event, and only the event that had passed
\* its flag check before the store and was about to enter its match arm;
\* the handler is invoked at most once after that store, which is also the
\* return of shutdown(), and only for that event.
C21_AtMostOneInFlight ==
    /\ [](atStore # None =>
            /\ shutdown
            /\ Len(dispatched) >= atStore[1].dispatched
            /\ Len(dispatched) <= atStore[1].dispatched + 1
            /\ (Len(dispatched) = atStore[1].dispatched + 1 =>
                  /\ atStore[1].inFlight
                  /\ dispatched[Len(dispatched)] = atStore[1].dispatched + 1)
            /\ Cardinality(HandledAfter(atStore[1].dispatched)) <= 1
            /\ (HandledAfter(atStore[1].dispatched) # {} => atStore[1].inFlight))
    /\ [][(bgPc = "check" /\ shutdown /\ bgPc' # bgPc) =>
            /\ bgPc' = "terminated"
            /\ UNCHANGED <<dispatched, handled, connected>>]_vars

\* shutdown() returned while a matching message was about to enter its
\* match arm: the handler ran once after the return, and the event read
\* next was discarded at its flag check
C21_Witness ==
    /\ atStore # None
    /\ atStore[1].inFlight
    /\ Len(dispatched) = atStore[1].dispatched + 1
    /\ Cardinality(HandledAfter(atStore[1].dispatched)) = 1
    /\ nread = Len(dispatched) + 1
    /\ bgPc = "terminated"
    /\ ~streamEnded
    /\ ownerPc = "live"

====
